---- MODULE Spec2Model ----
(***************************************************************************)
(* Buffer3D<T> of src/opencl/typedefs.hpp: a device buffer of 3-component  *)
(* vectors.  One instance is driven by a single host thread through the    *)
(* constructors, copy_to_host, copy_to_dev, zero_buffer, buffer and free;  *)
(* the destination of copy_to_dev is a second Buffer3D the caller passes.  *)
(* Device memory is a sequence of component cells; the byte counts the     *)
(* code hands to the platform are kept as byte counts.                     *)
(***************************************************************************)
EXTENDS Integers, Sequences, FiniteSets, TLC

\* ---------------------------------------------------------------- bounds
MaxN == 2          \* largest element count a constructor is given
MaxVal == 2        \* component values are 0..MaxVal

\* ------------------------------------------------------ program constants
SizeofFloat == 4       \* sizeof(cl_float)
SizeofDouble == 8      \* sizeof(cl_double)
SizeofFloat3 == 16     \* sizeof(cl_float3): a 3-vector occupies 4 components
SizeofDouble3 == 32    \* sizeof(cl_double3)

VARIABLES
    USE_VECTOR_TYPE,             \* build: native 3-wide vector element
    OPENCL_DP,                   \* build: device reals are double
    CL_API_SUFFIX__VERSION_1_2,  \* build: the platform has enqueueFillBuffer
    CL_HPP_ENABLE_EXCEPTIONS,    \* build: a rejected platform call throws
    T,                           \* the template argument of Buffer3D<T>
    this,                        \* the members of the Buffer3D instance
    uploaded,                    \* the host data the device holds, if any
    host,                        \* destinations of the last copy_to_host
    dst,                         \* copy_to_dev's dst, before and after
    pending,                     \* per command queue: commands not yet complete
    last,                        \* the last member function called
    terminated                   \* std::terminate was called

vars == <<USE_VECTOR_TYPE, OPENCL_DP, CL_API_SUFFIX__VERSION_1_2,
          CL_HPP_ENABLE_EXCEPTIONS, T, this, uploaded, host, dst, pending,
          last, terminated>>

build == <<USE_VECTOR_TYPE, OPENCL_DP, CL_API_SUFFIX__VERSION_1_2,
           CL_HPP_ENABLE_EXCEPTIONS, T>>

Queues == {"q", "vcl_queue"}
Types == {"float", "double"}
Values == 0 .. MaxVal

\* ------------------------------------------------------------ the types
real_t == IF OPENCL_DP THEN "double" ELSE "float"

sizeof(t) == IF t = "double" THEN SizeofDouble ELSE SizeofFloat

\* the scalar type of one component of Rv
Comp == IF USE_VECTOR_TYPE THEN real_t ELSE T

SizeofRv ==
    IF USE_VECTOR_TYPE
    THEN (IF OPENCL_DP THEN SizeofDouble3 ELSE SizeofFloat3)
    ELSE sizeof(T)

v == IF USE_VECTOR_TYPE THEN 1 ELSE 3

\* what the member v may hold while a mem-initializer of a member declared
\* before it runs: v's own initializer has not run yet
UninitV == {0, 1, 3, 4}

\* components of the staging array per element: x,y,z (and the vector pad)
Stride == (v * SizeofRv) \div sizeof(Comp)

Cells(bytes) == bytes \div sizeof(Comp)

\* conversion of a value to type t: a float keeps the even values only
Conv(x, t) == IF t = "double" THEN x ELSE x - (x % 2)

\* ------------------------------------------------- host data of the caller
\* the k-th component (k = 0,1,2) of element i of the host triplet drawn by
\* seed s, held in host type R
HostVal(s, i, k, R) == Conv((s + 3 * (i - 1) + k) % (MaxVal + 1), R)

HostTriplet(n, s, R) ==
    << [i \in 1 .. n |-> HostVal(s, i, 0, R)],
       [i \in 1 .. n |-> HostVal(s, i, 1, R)],
       [i \in 1 .. n |-> HostVal(s, i, 2, R)] >>

\* ------------------------------------------------------------ cl::Buffer
\* a cl::Buffer: the allocation behind it, of `size` bytes, when the
\* platform created one (valid), and the cells the device holds for it
Buffer(size, valid, mem) == [size |-> size, valid |-> valid, mem |-> mem]

\* device memory right after allocation: whatever the device held before
Unspecified(size, s) ==
    [j \in 1 .. Cells(size) |-> Conv((s + j) % (MaxVal + 1), Comp)]

\* cl::Buffer(c, fs, size): the platform creates the allocation or rejects
CreateBuffer(size, acc, s) ==
    IF acc THEN Buffer(size, TRUE, Unspecified(size, s))
           ELSE Buffer(size, FALSE, <<>>)

\* the platform takes a transfer of len bytes at offset off of buffer b
InRange(b, off, len) == b.valid /\ off + len <= b.size

\* the first len bytes of the device cells replaced by those of data
WriteCells(mem, len, data) ==
    [j \in 1 .. Len(mem) |-> IF j <= Cells(len) THEN data[j] ELSE mem[j]]

\* the cells of mem that the bytes off .. off+len-1 overlap set to pat
FillCells(mem, off, len, pat) ==
    [j \in 1 .. Len(mem) |->
        IF (j - 1) * sizeof(Comp) < off + len /\ j * sizeof(Comp) > off /\ len > 0
        THEN pat ELSE mem[j]]

\* ------------------------------------------------------ the staging array
\* std::vector<Rv> buff(count): count value-initialised elements
Staging(count) == [j \in 1 .. Cells(count * SizeofRv) |-> 0]

\* the packing loop with ys stored at 3*i+0 and xs at 3*i+1
PackSwapped(xs, ys, zs, n) ==
    [j \in 1 .. Cells(v * n * SizeofRv) |->
        LET i == (j - 1) \div Stride + 1
            k == (j - 1) % Stride
        IN  IF k = 0 THEN Conv(ys[i], Comp)
            ELSE IF k = 1 THEN Conv(xs[i], Comp)
            ELSE IF k = 2 THEN Conv(zs[i], Comp)
            ELSE 0]

\* the packing loop of the uploading constructor
Pack(xs, ys, zs, n) ==
    [j \in 1 .. Cells(v * n * SizeofRv) |->
        LET i == (j - 1) \div Stride + 1
            k == (j - 1) % Stride
        IN  IF k = 0 THEN Conv(xs[i], Comp)
            ELSE IF k = 1 THEN Conv(ys[i], Comp)
            ELSE IF k = 2 THEN Conv(zs[i], Comp)
            ELSE 0]

\* the unpacking loop of copy_to_host
Unpack(buff, n, R) ==
    << [i \in 1 .. n |-> Conv(buff[Stride * (i - 1) + 1], R)],
       [i \in 1 .. n |-> Conv(buff[Stride * (i - 1) + 2], R)],
       [i \in 1 .. n |-> Conv(buff[Stride * (i - 1) + 3], R)] >>

\* --------------------------------------------------------- command queues
\* a blocking enqueue on an in-order queue returns when the command, and so
\* every command before it, is complete
EnqueueBlocking(pend, q, cmd) == [pend EXCEPT ![q] = <<>>]

\* a non-blocking enqueue returns at once
Enqueue(pend, q, cmd) == [pend EXCEPT ![q] = Append(@, cmd)]

\* a finish() that returns without waiting
FinishNoWait(pend, q) == pend

\* q.finish() returns when every command of q is complete
Finish(pend, q) == [pend EXCEPT ![q] = <<>>]

\* ------------------------------------------------------- the call record
\* a byte range a call hands to the platform, and the bytes that are there
Range(what, off, len, cap) == [what |-> what, off |-> off, len |-> len, cap |-> cap]

Occupied(obj) == Len(obj.buff_container) = 1

\* the call op, made on an instance that was occupied or not (occ), whose
\* platform call was rejected or not, with the byte ranges it asked for
Call(op, rejected, req) ==
    [op |-> op, occ |-> Occupied(this), rejected |-> rejected, req |-> req]

\* a noexcept member function out of which an exception would escape
Terminate(op, req) ==
    /\ terminated' = TRUE
    /\ last' = Call(op, TRUE, req)
    /\ UNCHANGED <<build, this, uploaded, host, dst, pending>>

\* ---------------------------------------------------------- constructors
\* the members after Buffer3D(void)
DefaultMembers == [buff_container |-> <<>>, n_elems |-> 0, buffer_size |-> 0]

Buffer3D_default ==
    /\ ~terminated
    /\ this' = DefaultMembers
    /\ uploaded' = <<>>
    /\ host' = <<>>
    /\ dst' = <<>>
    /\ last' = Call("Buffer3D()", FALSE, {})
    /\ UNCHANGED <<build, pending, terminated>>

\* the members after Buffer3D(c, fs, n): buffer_size is initialised from v
\* before v is (members are initialised in declaration order, and v is
\* declared last); the allocation in the body is sized from the
\* initialised v.  u: what the uninitialised v reads as; acc: the platform
\* creates the allocation; s: what the device memory held
SizedMembers(n, u, acc, s) ==
    [buff_container |-> << CreateBuffer(v * n * SizeofRv, acc, s) >>,
     n_elems |-> n,
     buffer_size |-> n * u * SizeofRv]

Buffer3D_sized(n, u, s, acc) ==
    /\ ~terminated
    /\ IF ~acc /\ CL_HPP_ENABLE_EXCEPTIONS
       THEN Terminate("Buffer3D(n)", {})
       ELSE /\ this' = SizedMembers(n, u, acc, s)
            /\ uploaded' = <<>>
            /\ host' = <<>>
            /\ dst' = <<>>
            /\ last' = Call("Buffer3D(n)", ~acc, {})
            /\ UNCHANGED <<build, pending, terminated>>

\* the members after the uploading constructor's body: n_elems and
\* buffer_size are assigned in the body, where v is initialised
UploadMembers(xs, ys, zs, accA, accW, s) ==
    LET n == Len(xs)
        size == n * v * SizeofRv
        b == CreateBuffer(size, accA, s)
        buff == Pack(xs, ys, zs, n)
    IN  [buff_container |->
            << IF accW /\ InRange(b, 0, size)
               THEN [b EXCEPT !.mem = WriteCells(b.mem, size, buff)]
               ELSE b >>,
         n_elems |-> n,
         buffer_size |-> size]

\* Buffer3D(c, q, fs, xs, ys, zs), the host vectors of type R
Buffer3D_upload(q, n, s, R, accA, accW) ==
    /\ ~terminated
    /\ LET in == HostTriplet(n, s, R)
           new == UploadMembers(in[1], in[2], in[3], accA, accW, s)
           b == new.buff_container[1]
           written == accW /\ InRange(b, 0, new.buffer_size)
           req == {Range("device", 0, new.buffer_size, b.size),
                   Range("host", 0, new.buffer_size, v * new.n_elems * SizeofRv)}
       IN  IF ~written /\ CL_HPP_ENABLE_EXCEPTIONS
           THEN Terminate("Buffer3D(xs,ys,zs)", req)
           ELSE /\ this' = new
                /\ uploaded' = IF written THEN in \o <<R>> ELSE <<>>
                /\ pending' = IF written
                              THEN EnqueueBlocking(pending, q, "write")
                              ELSE pending
                /\ host' = <<>>
                /\ dst' = <<>>
                /\ last' = Call("Buffer3D(xs,ys,zs)", ~written, req)
                /\ UNCHANGED <<build, terminated>>

\* ------------------------------------------------------------ transfers
\* what copy_to_host stores in destinations of host type R when the
\* platform takes the read (acc) or rejects it
HostView(obj, R, acc) ==
    LET b == obj.buff_container[1]
        buff0 == Staging(v * obj.n_elems)
        buff == IF acc /\ InRange(b, 0, obj.buffer_size)
                THEN WriteCells(buff0, obj.buffer_size, b.mem)
                ELSE buff0
    IN  Unpack(buff, obj.n_elems, R)

copy_to_host(q, R, acc) ==
    /\ ~terminated
    /\ Occupied(this)
    /\ LET b == this.buff_container[1]
           read == acc /\ InRange(b, 0, this.buffer_size)
           req == {Range("device", 0, this.buffer_size, b.size),
                   Range("host", 0, this.buffer_size, v * this.n_elems * SizeofRv)}
       IN  IF ~read /\ CL_HPP_ENABLE_EXCEPTIONS
           THEN Terminate("copy_to_host", req)
           ELSE /\ host' = HostView(this, R, acc) \o <<R>>
                /\ pending' = IF read
                              THEN EnqueueBlocking(pending, q, "read")
                              ELSE pending
                /\ dst' = <<>>
                /\ last' = Call("copy_to_host", ~read, req)
                /\ UNCHANGED <<build, this, uploaded, terminated>>

\* the destination's cl::Buffer after enqueueCopyBuffer(src, dst, 0, 0, size)
CopyBuffer(src, d, size, acc) ==
    IF acc /\ InRange(src, 0, size) /\ InRange(d, 0, size)
    THEN [d EXCEPT !.mem = WriteCells(d.mem, size, src.mem)]
    ELSE d

\* a copy_to_dev that also assigns the source's counts to dst
CopiedWithCounts(obj, d, acc) ==
    [d EXCEPT !.buff_container =
                 << CopyBuffer(obj.buff_container[1], d.buff_container[1],
                               obj.buffer_size, acc) >>,
              !.n_elems = obj.n_elems,
              !.buffer_size = obj.buffer_size]

\* the members of dst after copy_to_dev(q, dst)
CopiedTo(obj, d, acc) ==
    [d EXCEPT !.buff_container =
        << CopyBuffer(obj.buff_container[1], d.buff_container[1],
                      obj.buffer_size, acc) >>]

copy_to_dev(q, d, acc) ==
    /\ ~terminated
    /\ Occupied(this) /\ Occupied(d)
    /\ LET s == this.buff_container[1]
           t == d.buff_container[1]
           copied == acc /\ InRange(s, 0, this.buffer_size)
                         /\ InRange(t, 0, this.buffer_size)
           req == {Range("device", 0, this.buffer_size, s.size),
                   Range("device", 0, this.buffer_size, t.size)}
       IN  IF ~copied /\ CL_HPP_ENABLE_EXCEPTIONS
           THEN Terminate("copy_to_dev", req)
           ELSE /\ dst' = << d, CopiedTo(this, d, acc) >>
                /\ pending' = Finish(IF copied THEN Enqueue(pending, q, "copy")
                                               ELSE pending, q)
                /\ host' = <<>>
                /\ last' = Call("copy_to_dev", ~copied, req)
                /\ UNCHANGED <<build, this, uploaded, terminated>>

\* the cl::Buffer after zero_buffer's enqueue.  With the fill primitive the
\* call is enqueueFillBuffer(buffer, &zero, sizeof(Rv), v*n_elems): the
\* pattern is the pointer &zero (pat: what its bytes read as), the offset is
\* sizeof(Rv) bytes and the size v*n_elems bytes.  Without it, buffer_size
\* bytes of a zero-filled staging array of 3*n_elems elements are written
ZeroFill(obj, acc, pat) ==
    LET b == obj.buff_container[1]
    IN  IF CL_API_SUFFIX__VERSION_1_2
        THEN IF acc /\ InRange(b, SizeofRv, v * obj.n_elems)
             THEN [b EXCEPT !.mem = FillCells(b.mem, SizeofRv, v * obj.n_elems,
                                               Conv(pat, Comp))]
             ELSE b
        ELSE IF acc /\ InRange(b, 0, obj.buffer_size)
             THEN [b EXCEPT !.mem =
                     WriteCells(b.mem, obj.buffer_size, Staging(3 * obj.n_elems))]
             ELSE b

\* the byte ranges zero_buffer hands to the platform
ZeroRanges(obj) ==
    LET b == obj.buff_container[1]
    IN  IF CL_API_SUFFIX__VERSION_1_2
        THEN {Range("device", SizeofRv, v * obj.n_elems, b.size)}
        ELSE {Range("device", 0, obj.buffer_size, b.size),
              Range("host", 0, obj.buffer_size, 3 * obj.n_elems * SizeofRv)}

\* the queue zero_buffer enqueues on and drains
ZeroQueue == "vcl_queue"

zero_buffer(acc, pat) ==
    /\ ~terminated
    /\ Occupied(this)
    /\ LET b == this.buff_container[1]
           req == ZeroRanges(this)
           done == /\ acc
                   /\ b.valid
                   /\ \A r \in req : r.what = "device" => r.off + r.len <= r.cap
       IN  IF ~done /\ CL_HPP_ENABLE_EXCEPTIONS
           THEN Terminate("zero_buffer", req)
           ELSE /\ this' = [this EXCEPT !.buff_container = << ZeroFill(this, acc, pat) >>]
                /\ uploaded' = IF done THEN <<>> ELSE uploaded
                /\ pending' = Finish(IF done THEN Enqueue(pending, ZeroQueue, "zero")
                                             ELSE pending, ZeroQueue)
                /\ host' = <<>>
                /\ dst' = <<>>
                /\ last' = Call("zero_buffer", ~done, req)
                /\ UNCHANGED <<build, terminated>>

\* buffer(): a reference to buff_container[0]
buffer ==
    /\ ~terminated
    /\ Occupied(this)
    /\ last' = Call("buffer", FALSE, {})
    /\ host' = <<>>
    /\ dst' = <<>>
    /\ UNCHANGED <<build, this, uploaded, pending, terminated>>

\* a free() that also resets the counts, as the default constructor does
FreedToDefault(obj) == [buff_container |-> <<>>, n_elems |-> 0, buffer_size |-> 0]

\* a free() that swaps in a vector of one default cl::Buffer
FreedToOne(obj) == [obj EXCEPT !.buff_container = << Buffer(0, FALSE, <<>>) >>]

\* the members after free(): buff_container swapped with an empty vector
Freed(obj) == [obj EXCEPT !.buff_container = <<>>]

free ==
    /\ ~terminated
    /\ this' = Freed(this)
    /\ uploaded' = <<>>
    /\ host' = <<>>
    /\ dst' = <<>>
    /\ last' = Call("free", FALSE, {})
    /\ UNCHANGED <<build, pending, terminated>>

\* ------------------------------------------------------- the state machine
\* T is read only in the scalar layout and OPENCL_DP only in the vector
\* layout: with T = real_t the four layout/precision builds are all there
Init ==
    /\ USE_VECTOR_TYPE \in BOOLEAN
    /\ OPENCL_DP \in BOOLEAN
    /\ CL_API_SUFFIX__VERSION_1_2 \in BOOLEAN
    /\ CL_HPP_ENABLE_EXCEPTIONS \in BOOLEAN
    /\ T = real_t
    /\ this = DefaultMembers
    /\ uploaded = <<>>
    /\ host = <<>>
    /\ dst = <<>>
    /\ pending = [q \in Queues |-> <<>>]
    /\ last = [op |-> "Buffer3D()", occ |-> FALSE, rejected |-> FALSE, req |-> {}]
    /\ terminated = FALSE

\* the Buffer3D objects a caller passes to copy_to_dev as dst: what the
\* sized constructors return for counts in N and contents drawn by S
Peers(N, S) ==
    { SizedMembers(n, u, TRUE, s) : n \in N, u \in UninitV, s \in S }
    \cup { UploadMembers(HostTriplet(n, s, Comp)[1], HostTriplet(n, s, Comp)[2],
                         HostTriplet(n, s, Comp)[3], TRUE, TRUE, s) :
              n \in N, s \in S }

\* one instance, host data of every seed and both host types; the device
\* memory a sized constructor finds is drawn by the seed 1
Next ==
    \/ Buffer3D_default
    \/ \E n \in 0 .. MaxN, u \in UninitV, acc \in BOOLEAN :
          Buffer3D_sized(n, u, 1, acc)
    \/ \E n \in 0 .. MaxN, s \in Values, accA \in BOOLEAN :
          \E accW \in IF accA THEN BOOLEAN ELSE {FALSE} :
             \E R \in IF accW THEN Types ELSE {Comp} :
                Buffer3D_upload("q", n, s, R, accA, accW)
    \/ \E R \in Types, acc \in BOOLEAN : copy_to_host("q", R, acc)
    \/ \E acc \in BOOLEAN, pat \in Values : zero_buffer(acc, pat)
    \/ buffer
    \/ free

Spec == Init /\ [][Next]_vars

\* the instance and the destinations of copy_to_dev: host data and device
\* memory of the seed 0 for the instance and of the seed 1 for the
\* destinations, host vectors of the device's component type
NextPair ==
    \/ Buffer3D_default
    \/ \E n \in 0 .. MaxN, u \in UninitV, acc \in BOOLEAN :
          Buffer3D_sized(n, u, 0, acc)
    \/ \E n \in 0 .. MaxN, accA \in BOOLEAN :
          \E accW \in IF accA THEN BOOLEAN ELSE {FALSE} :
             Buffer3D_upload("q", n, 0, Comp, accA, accW)
    \/ \E acc \in BOOLEAN : copy_to_host("q", Comp, acc)
    \/ \E d \in Peers(0 .. MaxN, {1}), acc \in BOOLEAN : copy_to_dev("q", d, acc)
    \/ \E acc \in BOOLEAN : zero_buffer(acc, 0)
    \/ buffer
    \/ free

SpecPair == Init /\ [][NextPair]_vars

\* ------------------------------------------------------------ the claims
Constructors == {"Buffer3D(n)", "Buffer3D(xs,ys,zs)"}

Zeros(n) == [i \in 1 .. n |-> 0]

\* C1: after either sized constructor buffer_size is n * 3 *
\* sizeof(component), in both layouts, and the allocation is asked for that
\* many bytes.
C1_SizeInvariant ==
    (last.op \in Constructors /\ ~terminated /\ ~last.rejected) =>
        /\ this.buffer_size = this.n_elems * 3 * sizeof(Comp)
        /\ this.buff_container[1].size = this.buffer_size

\* C2: after free() on an occupied buffer the instance is as a
\* default-constructed one: no resource, n = 0, buffer_size = 0.
C2_FreeEmpties ==
    (last.op = "free" /\ last.occ) => this = DefaultMembers

\* C2, amended: free() on an occupied buffer releases the resource and
\* leaves n_elems and buffer_size as the constructor set them.
C2_FreeReleases ==
    [][(last'.op = "free" /\ Occupied(this)) =>
          /\ ~Occupied(this')
          /\ this'.n_elems = this.n_elems
          /\ this'.buffer_size = this.buffer_size]_vars

C2_Witness ==
    /\ last.op = "free" /\ last.occ
    /\ ~Occupied(this)
    /\ this.n_elems > 0 /\ this.buffer_size > 0

\* C3: after zero_buffer() returns on a buffer whose buffer_size is the
\* size of its allocation, a copy_to_host yields 0 for the x, y and z
\* component of every element, on either zero-fill path.
C3_ZeroProperty ==
    (/\ last.op = "zero_buffer" /\ ~terminated /\ ~last.rejected
     /\ this.buffer_size = this.buff_container[1].size) =>
        \A R \in Types :
            HostView(this, R, TRUE) =
                << Zeros(this.n_elems), Zeros(this.n_elems), Zeros(this.n_elems) >>

C5_DevToDev ==
    (/\ last.op = "copy_to_dev" /\ ~terminated /\ ~last.rejected
     /\ dst[1].n_elems = this.n_elems) =>
        \A R \in Types : HostView(dst[2], R, TRUE) = HostView(this, R, TRUE)

\* C6: when a transfer operation has returned, no command it enqueued is
\* still pending on the queue it enqueued it on.
C6_SyncPoint ==
    ~terminated => \A q \in Queues : \A i \in 1 .. Len(pending[q]) :
        pending[q][i] \notin {"write", "read", "copy", "zero"}

C6_Witness ==
    /\ last.op \in {"zero_buffer", "copy_to_dev"}
    /\ ~terminated /\ ~last.rejected
    /\ this.n_elems > 0

\* C7: a constructor whose allocation or write the platform rejects hands
\* the caller an error, not an occupied buffer.
C7_FailurePropagates ==
    (last.op \in Constructors /\ last.rejected) =>
        ~terminated /\ ~Occupied(this)

\* C8: a default-constructed buffer has n = 0, buffer_size = 0 and no
\* resource; free() on a buffer that holds no resource changes neither the
\* resource count nor n nor buffer_size.
C8_EmptyState ==
    /\ [](last.op = "Buffer3D()" => this = DefaultMembers)
    /\ [][(last'.op = "free" /\ ~Occupied(this)) =>
             (this' = this /\ ~Occupied(this'))]_vars

C8_Witness ==
    last.op = "free" /\ ~last.occ /\ ~Occupied(this)

SameShape(a, b) ==
    /\ Occupied(a) = Occupied(b)
    /\ a.n_elems = b.n_elems
    /\ a.buffer_size = b.buffer_size

\* C9: an instance holds zero or one resource; copy_to_host, copy_to_dev,
\* zero_buffer and buffer() leave the occupancy, n and buffer_size of the
\* instance, and of copy_to_dev's destination, unchanged: occupancy changes
\* only by a constructor or free().
C9_Frame ==
    /\ [](/\ Len(this.buff_container) <= 1
          /\ dst # <<>> => (Len(dst[2].buff_container) <= 1 /\ SameShape(dst[1], dst[2])))
    /\ [][/\ last'.op \in {"copy_to_host", "copy_to_dev", "zero_buffer", "buffer"}
             => SameShape(this, this')
          /\ Occupied(this') # Occupied(this)
             => last'.op \in Constructors \cup {"Buffer3D()", "free"}]_vars

C9_Witness ==
    /\ last.op = "copy_to_dev" /\ ~terminated /\ ~last.rejected
    /\ dst[1] # dst[2]
    /\ dst[1].n_elems # this.n_elems

\* C10: every byte range a transfer hands to the platform lies within the
\* device allocation of buffer_size bytes, or the host staging array, it is
\* about (copy_to_dev with a destination of equal buffer_size).
SizedAsAllocated(obj) ==
    Occupied(obj) =>
        (obj.buff_container[1].valid /\ obj.buffer_size = obj.buff_container[1].size)

C10_InBounds ==
    (/\ SizedAsAllocated(this)
     /\ last.op = "copy_to_dev" =>
           (/\ ~terminated
            /\ SizedAsAllocated(dst[1])
            /\ dst[1].buffer_size = this.buffer_size)) =>
        \A r \in last.req : r.off + r.len <= r.cap
====
